---------------------------- MODULE Spec2Model ----------------------------
(***************************************************************************)
(* A model of bitcoin_tools/analysis/leveldb/utils.py: the base-128 varint *)
(* codec (b128_encode, b128_decode, parse_b128), the chainstate record     *)
(* decoder (decode_utxo), the input-size classifier (check_multisig,       *)
(* get_min_input_size) and the dust accumulator (accumulate_dust_lm).      *)
(*                                                                         *)
(* A Python hex str is modelled as the sequence of its hex digits, each a  *)
(* number in 0..15, so that offsets, slices and lengths are those of the   *)
(* source (two characters per byte).  The strings the program handles come *)
(* from hexlify / format(i, '02x'): lower case and of even length.         *)
(* A Python exception is modelled as a result record whose err field names *)
(* the exception; err = "" is a normal return.                             *)
(***************************************************************************)
EXTENDS Integers, Sequences, FiniteSets, TLC

VARIABLES
    v_pc,       \* varint codec: "int" | "str" | "encoded" | "decoded" | "error" | "idle"
    v_first,    \* varint codec: what the run started from, "int" or "str"
    v_n0,       \* varint codec: the integer the run started from (-1: none)
    v_s0,       \* varint codec: the hex str the run started from
    v_num,      \* varint codec: the latest integer (input, or b128_decode's return)
    v_hex,      \* varint codec: the latest hex str (input, or b128_encode's return)
    d_pc,       \* decoder: "input" | "decoded" | "extended" | "redecoded" | "idle"
    d_utxo,     \* decoder: the serialized utxo (hex str) given to decode_utxo
    d_res,      \* decoder: what the latest call decode_utxo(d_utxo) returned or raised
    c_pc,       \* classifier: "input" | "sized" | "checked" | "idle"
    c_out,      \* classifier: the out (a dict of decode_utxo's outs) classified
    c_height,   \* classifier: the height argument
    c_count_p2sh, \* classifier: the count_p2sh argument
    c_std,      \* classifier: the std argument of check_multisig
    c_size,     \* classifier: what get_min_input_size returned or raised
    c_multisig, \* classifier: what check_multisig returned or raised
    a_pc,       \* accumulator: "reading" | "written" | "idle"
    a_read,     \* accumulator: the outputs whose lines of fin were read so far
    a_prev,     \* accumulator: the tables and totals before the latest line
    a_acc,      \* accumulator: the six tables and the three totals
    a_out       \* accumulator: the dict written to fout

varintVars == <<v_pc, v_first, v_n0, v_s0, v_num, v_hex>>

decoderVars == <<d_pc, d_utxo, d_res>>

classifierVars == <<c_pc, c_out, c_height, c_count_p2sh, c_std, c_size, c_multisig>>

accumulatorVars == <<a_pc, a_read, a_prev, a_acc, a_out>>

vars == <<v_pc, v_first, v_n0, v_s0, v_num, v_hex, d_pc, d_utxo, d_res,
          c_pc, c_out, c_height, c_count_p2sh, c_std, c_size, c_multisig,
          a_pc, a_read, a_prev, a_acc, a_out>>

-----------------------------------------------------------------------------
(* Bounds of the model *)

\* Integers 0..MaxVarint are all encoded (besides the boundary values below).
MaxVarint == 300

\* Byte strings of up to MaxVarintBytes bytes are all decoded.
MaxVarintBytes == 3

\* Boundary values of the encoding: the largest and smallest values of each
\* length up to the largest integer the checker represents.
VarintBoundary ==
    {16383, 16384, 16511, 16512, 2097151, 2097152, 2113663, 2113664,
     268435455, 268435456, 270549119, 270549120, 2147483647}

\* The 7-bit payloads the decoded byte strings are built from.
VarintPayloads == {0, 1, 2, 63, 64, 126, 127}

\* A serialized utxo given to decode_utxo is a version, a code and up to
\* MaxBodyFields further varints.
MaxBodyFields == 6

\* The values the serialized utxos are written from.  The versions are
\* varints of one byte (01) and of two (80 00).  The codes are: outputs 0 and
\* 1 spent and n - 1 = 0 (0); both unspent and n = 0 (6); output 0 unspent
\* and n = 1 (10); output 1 unspent and n = 1 (12).  As bitvector bytes the
\* fields mark outputs 3-4 (06), 2-4 (07) and 8 or 16 (40), with 00 a gap; as
\* out_types they are P2PKH (00) and raw scripts of 0 and 1 bytes (06, 07).
DecoderVersions == {1, 128}

DecoderCodes == {0, 6, 10, 12}

DecoderFields == {0, 6, 7, 64}

\* The bytes appended to a record that decoded.
ExtraBytes == {0, 6, 127, 128, 255}

\* A serialized utxo of one output carries a payload of up to MaxPayload
\* bytes, or of the 122 bytes of the shortest script whose out_type takes two
\* bytes as a varint.
MaxPayload == 34

LongPayloads == {122}

\* The out_types of those outputs: the six special ones, scripts of 0, 1, 20
\* and 33 bytes, and the script of 122 bytes (out_type 128, written 80 00).
PayloadOutTypes == {0, 1, 2, 3, 4, 5, 6, 7, 26, 39, 128}

\* The bytes of a payload are 1, 2, 3 and so on, and its last byte is its
\* length plus the base: without (base 0) or with (base 128) the continuation
\* bit of a varint.
PayloadBases == {0, 128}

\* The compressed amounts and the heights: varints of one and of two bytes.
PayloadAmounts == {0, 128}

PayloadHeights == {0, 128}

\* The raw scripts classified have up to MaxFill bytes between their second
\* and their last byte (besides the two-key scripts and the short ones).
MaxFill == 2

\* First, second and last bytes of the raw scripts: the ends of the ranges
\* check_multisig tests and their neighbours; the two key pushes and another
\* push; OP_CHECKMULTISIG (ae), OP_2 (52) and OP_CHECKSIG (ac).
ScriptFirstBytes == {80, 81, 82, 83, 84, 100, 101}

ScriptSecondBytes == {32, 33, 65}

ScriptLastBytes == {82, 172, 174}

\* The heights classified: the ends of the chain and both sides of the
\* P2PKH threshold.
ClassifierHeights == {0, 173479, 173480, 173481, 500000}

\* The parsed utxo file read by accumulate_dust_lm has up to MaxLines lines.
MaxLines == 2

\* The min_size of the outputs of the file: a non-standard script (-1), a
\* P2SH output that is not counted (0) and a P2PKH output.
AccumulatorMinSizes == {-1, 0, 147}

\* Their amounts: none, the cost of spending 147 bytes at the lowest fee
\* rate, one satoshi more, and more than the cost at any fee rate.
AccumulatorAmounts == {0, 4410, 4411, 60000}

AccumulatorDataLens == {0, 25}

\* Their loss-making rates: none, and a rate between two steps of the range.
AccumulatorLossMaking == {0, 95}

-----------------------------------------------------------------------------
(* Python's integer and string operators *)

Min(a, b) == IF a <= b THEN a ELSE b

\* a & b on non-negative integers
RECURSIVE BitAnd(_, _)
BitAnd(a, b) ==
    IF a = 0 \/ b = 0 THEN 0
    ELSE (a % 2) * (b % 2) + 2 * BitAnd(a \div 2, b \div 2)

\* a | b on non-negative integers
RECURSIVE BitOr(_, _)
BitOr(a, b) ==
    IF a = 0 THEN b
    ELSE IF b = 0 THEN a
    ELSE (IF a % 2 = 1 \/ b % 2 = 1 THEN 1 ELSE 0) + 2 * BitOr(a \div 2, b \div 2)

\* a >> k and a << k on non-negative integers
ShiftRight(a, k) == a \div (2 ^ k)

ShiftLeft(a, k) == a * (2 ^ k)

\* s[a:b] for 0 <= a <= b: clipped to the string, never an error
Slice(s, a, b) == SubSeq(s, a + 1, Min(b, Len(s)))

\* s[::-1] and list.reverse()
Reverse(s) == [i \in 1..Len(s) |-> s[Len(s) + 1 - i]]

\* format(i, '02x') for 0 <= i < 256: two hex digits
Format02x(i) == <<i \div 16, i % 16>>

\* int(s, 16) for a non-empty s; int('', 16) raises ValueError, which the
\* callers model before they use this.
RECURSIVE Int16(_)
Int16(s) ==
    IF Len(s) = 0 THEN 0
    ELSE 16 * Int16(SubSeq(s, 1, Len(s) - 1)) + s[Len(s)]

\* A normal return and a raised exception
Return(v) == [err |-> "", val |-> v]

Raise(e) == [err |-> e, val |-> 0]

-----------------------------------------------------------------------------
(* b128_encode *)

\* b128_encode's loop with "n = n >> 7" in place of "n = (n >> 7) - 1".
RECURSIVE b128_encode_loop_no_decrement(_, _, _)
b128_encode_loop_no_decrement(n, l, tmp) ==
    LET tmp1 == Append(tmp, BitAnd(n, 127))
        tmp2 == IF l # 0
                THEN [tmp1 EXCEPT ![l + 1] = BitOr(tmp1[l + 1], 128)]
                ELSE tmp1
    IN  IF n <= 127 THEN tmp2
        ELSE b128_encode_loop_no_decrement(ShiftRight(n, 7), l + 1, tmp2)

\* The while loop of b128_encode: l and tmp are the source's, n its argument.
RECURSIVE b128_encode_loop(_, _, _)
b128_encode_loop(n, l, tmp) ==
    LET tmp1 == Append(tmp, BitAnd(n, 127))
        tmp2 == IF l # 0
                THEN [tmp1 EXCEPT ![l + 1] = BitOr(tmp1[l + 1], 128)]
                ELSE tmp1
    IN  IF n <= 127 THEN tmp2
        ELSE b128_encode_loop(ShiftRight(n, 7) - 1, l + 1, tmp2)

\* The for loop of b128_encode: data += format(i, '02x')
RECURSIVE HexOfBytes(_)
HexOfBytes(tmp) ==
    IF tmp = <<>> THEN <<>>
    ELSE Format02x(Head(tmp)) \o HexOfBytes(Tail(tmp))

b128_encode(n) == HexOfBytes(Reverse(b128_encode_loop(n, 0, <<>>)))

-----------------------------------------------------------------------------
(* b128_decode *)

\* b128_decode's loop without "n += 1" on a continuation byte.
RECURSIVE b128_decode_loop_no_increment(_, _, _)
b128_decode_loop_no_increment(data, n, i) ==
    LET chunk == Slice(data, 2 * i, 2 * i + 2)
        d == Int16(chunk)
        n1 == BitOr(ShiftLeft(n, 7), BitAnd(d, 127))
    IN  IF chunk = <<>> THEN Raise("ValueError")
        ELSE IF BitAnd(d, 128) # 0 THEN b128_decode_loop_no_increment(data, n1, i + 1)
        ELSE Return(n1)

\* The while loop of b128_decode: n and i are the source's.
RECURSIVE b128_decode_loop(_, _, _)
b128_decode_loop(data, n, i) ==
    LET chunk == Slice(data, 2 * i, 2 * i + 2)
        d == Int16(chunk)
        n1 == BitOr(ShiftLeft(n, 7), BitAnd(d, 127))
    IN  IF chunk = <<>> THEN Raise("ValueError")
        ELSE IF BitAnd(d, 128) # 0 THEN b128_decode_loop(data, n1 + 1, i + 1)
        ELSE Return(n1)

b128_decode(data) == b128_decode_loop(data, 0, 0)

-----------------------------------------------------------------------------
(* parse_b128 *)

ParseResult(e, data, offset) == [err |-> e, data |-> data, offset |-> offset]

\* The while loop of parse_b128; int('', 16) raises ValueError when the
\* utxo ends on a continuation byte.
RECURSIVE parse_b128_while(_, _, _, _)
parse_b128_while(utxo, data, offset, more_bytes) ==
    IF more_bytes = 0 THEN ParseResult("", data, offset)
    ELSE LET chunk == Slice(utxo, offset, offset + 2)
         IN  IF chunk = <<>> THEN ParseResult("ValueError", data, offset)
             ELSE parse_b128_while(utxo, data \o chunk, offset + 2,
                                   BitAnd(Int16(chunk), 128))

parse_b128(utxo, offset) ==
    LET data == Slice(utxo, offset, offset + 2)
    IN  IF data = <<>> THEN ParseResult("ValueError", data, offset + 2)
        ELSE parse_b128_while(utxo, data, offset + 2, BitAnd(Int16(data), 128))

-----------------------------------------------------------------------------
(* The names decode_utxo imports from the rest of the package *)

\* bitcoin_tools.analysis.leveldb.NSPECIALSCRIPTS: the offset of the raw
\* script out_types (0..5 are the special scripts).
NSPECIALSCRIPTS == 6

\* bitcoin_tools.utils.change_endianness: the byte order of a hex str
\* reversed (an odd-length str is padded with a "0" first).
RECURSIVE ReverseBytes(_)
ReverseBytes(x) ==
    IF Len(x) < 2 THEN x
    ELSE ReverseBytes(SubSeq(x, 3, Len(x))) \o SubSeq(x, 1, 2)

change_endianness(x) ==
    ReverseBytes(IF Len(x) % 2 = 1 THEN Append(x, 0) ELSE x)

\* bitcoin_tools.utils.txout_decompress: Bitcoin Core's amount decompression.
txout_decompress(x0) ==
    IF x0 = 0 THEN 0
    ELSE LET x1 == x0 - 1
             e == x1 % 10
             x2 == x1 \div 10
             n == IF e < 9
                  THEN (x2 \div 9) * 10 + ((x2 % 9) + 1)
                  ELSE x2 + 1
         IN  n * (10 ^ e)

-----------------------------------------------------------------------------
(* decode_utxo *)

\* The four bits of a hex digit, most significant first
DigitBits(d) == <<(d \div 8) % 2, (d \div 4) % 2, (d \div 2) % 2, d % 2>>

RECURSIVE HexBits(_)
HexBits(h) ==
    IF h = <<>> THEN <<>> ELSE DigitBits(Head(h)) \o HexBits(Tail(h))

RECURSIVE StripLeadingZeros(_)
StripLeadingZeros(b) ==
    IF Len(b) > 1 /\ Head(b) = 0 THEN StripLeadingZeros(Tail(b)) ELSE b

\* format(int(h, 16), '00b') for a non-empty h: the binary digits of the
\* value without leading zeros ("0" for zero).  The width the source asks
\* for is n * 8 with n already counted down to 0, so nothing is padded.  The
\* digits are computed without the intermediate integer, which has no bound.
FormatBinary(h) == StripLeadingZeros(HexBits(h))

\* s.find(c, i): the first position >= i holding c, or -1
StrFind(s, c, i) ==
    LET hits == {j \in i..(Len(s) - 1) : s[j + 1] = c}
    IN  IF hits = {} THEN -1 ELSE CHOOSE j \in hits : \A k \in hits : j <= k

\* [f(i) for i in xrange(n) if keep(i)] for the two list comprehensions
RECURSIVE UnspentOfFlags(_, _)
UnspentOfFlags(vout, i) ==
    IF i >= Len(vout) THEN <<>>
    ELSE (IF vout[i + 1] # 0 THEN <<i>> ELSE <<>>) \o UnspentOfFlags(vout, i + 1)

RECURSIVE ExtendedVout(_, _)
ExtendedVout(bin_data, i) ==
    IF i >= Len(bin_data) THEN <<>>
    ELSE (IF StrFind(bin_data, 1, i) = i THEN <<i + 2>> ELSE <<>>)
         \o ExtendedVout(bin_data, i + 1)

\* decode_utxo_code with "n = code >> 3" on both branches.
decode_utxo_code_no_plus_one(code) ==
    LET vout == <<BitAnd(BitOr(code, 1), 2), BitAnd(BitOr(code, 1), 4)>>
    IN  IF vout[1] = 0 /\ vout[2] = 0
        THEN [n |-> ShiftRight(code, 3), vout |-> <<>>]
        ELSE [n |-> ShiftRight(code, 3), vout |-> UnspentOfFlags(vout, 0)]

\* n and the unspent ones of the first two outputs, from code
decode_utxo_code(code) ==
    LET vout == <<BitAnd(BitOr(code, 1), 2), BitAnd(BitOr(code, 1), 4)>>
    IN  IF vout[1] = 0 /\ vout[2] = 0
        THEN [n |-> ShiftRight(code, 3) + 1, vout |-> <<>>]
        ELSE [n |-> ShiftRight(code, 3), vout |-> UnspentOfFlags(vout, 0)]

\* decode_utxo_bitvector counting the zero bytes too.
RECURSIVE decode_utxo_bitvector_counts_zero(_, _, _, _)
decode_utxo_bitvector_counts_zero(utxo, n, bitvector, offset) ==
    IF n = 0 THEN [bitvector |-> bitvector, offset |-> offset]
    ELSE LET data == Slice(utxo, offset, offset + 2)
         IN  decode_utxo_bitvector_counts_zero(utxo, n - 1, bitvector \o data, offset + 2)

\* The loop "while n:" that reads the bitvector.  A read past the end of the
\* utxo gives "", which is not "00" and is counted.
RECURSIVE decode_utxo_bitvector(_, _, _, _)
decode_utxo_bitvector(utxo, n, bitvector, offset) ==
    IF n = 0 THEN [bitvector |-> bitvector, offset |-> offset]
    ELSE LET data == Slice(utxo, offset, offset + 2)
         IN  decode_utxo_bitvector(utxo, IF data # <<0, 0>> THEN n - 1 ELSE n,
                                   bitvector \o data, offset + 2)

\* The indexes the bitvector marks unspent; int('', 16) raises ValueError.
decode_utxo_extended_vout(bitvector) ==
    IF change_endianness(bitvector) = <<>> THEN Raise("ValueError")
    ELSE Return(ExtendedVout(Reverse(FormatBinary(change_endianness(bitvector))), 0))

OutsResult(e, outs, offset) == [err |-> e, outs |-> outs, offset |-> offset]

\* decode_utxo_outs without "offset -= 2" for the out_types 2..5.
RECURSIVE decode_utxo_outs_no_back_up(_, _, _, _, _)
decode_utxo_outs_no_back_up(utxo, vout, k, offset, outs) ==
    IF k > Len(vout) THEN OutsResult("", outs, offset)
    ELSE
    LET a == parse_b128(utxo, offset)
    IN  IF a.err # "" THEN OutsResult(a.err, outs, a.offset)
    ELSE
    LET a_dec == b128_decode(a.data)
        t == parse_b128(utxo, a.offset)
    IN  IF a_dec.err # "" THEN OutsResult(a_dec.err, outs, a.offset)
        ELSE IF t.err # "" THEN OutsResult(t.err, outs, t.offset)
    ELSE
    LET t_dec == b128_decode(t.data)
    IN  IF t_dec.err # "" THEN OutsResult(t_dec.err, outs, t.offset)
    ELSE
    LET amount == txout_decompress(a_dec.val)
        out_type == t_dec.val
        data_size == IF out_type \in {0, 1} THEN 40
                     ELSE IF out_type \in {2, 3, 4, 5} THEN 66
                     ELSE (out_type - NSPECIALSCRIPTS) * 2
        data == Slice(utxo, t.offset, t.offset + data_size)
        out == [index |-> vout[k], amount |-> amount,
                out_type |-> out_type, data |-> data]
    IN  decode_utxo_outs_no_back_up(utxo, vout, k + 1, t.offset + data_size,
                                    Append(outs, out))

\* The loop "for i in vout:", from its k-th element on
RECURSIVE decode_utxo_outs(_, _, _, _, _)
decode_utxo_outs(utxo, vout, k, offset, outs) ==
    IF k > Len(vout) THEN OutsResult("", outs, offset)
    ELSE
    LET a == parse_b128(utxo, offset)
    IN  IF a.err # "" THEN OutsResult(a.err, outs, a.offset)
    ELSE
    LET a_dec == b128_decode(a.data)
        t == parse_b128(utxo, a.offset)
    IN  IF a_dec.err # "" THEN OutsResult(a_dec.err, outs, a.offset)
        ELSE IF t.err # "" THEN OutsResult(t.err, outs, t.offset)
    ELSE
    LET t_dec == b128_decode(t.data)
    IN  IF t_dec.err # "" THEN OutsResult(t_dec.err, outs, t.offset)
    ELSE
    LET amount == txout_decompress(a_dec.val)
        out_type == t_dec.val
        data_size == IF out_type \in {0, 1} THEN 40
                     ELSE IF out_type \in {2, 3, 4, 5} THEN 66
                     ELSE (out_type - NSPECIALSCRIPTS) * 2
        start == IF out_type \in {2, 3, 4, 5} THEN t.offset - 2 ELSE t.offset
        data == Slice(utxo, start, start + data_size)
        out == [index |-> vout[k], amount |-> amount,
                out_type |-> out_type, data |-> data]
    IN  decode_utxo_outs(utxo, vout, k + 1, start + data_size, Append(outs, out))

\* What decode_utxo returns or raises.  val is the returned dict; code, n,
\* bitvector and offset record the local variables of the call for the
\* properties below (offset is the cursor when the call ended).
DecodeResult(e, val, code, n, bitvector, offset) ==
    [err |-> e, val |-> val, code |-> code, n |-> n,
     bitvector |-> bitvector, offset |-> offset]

NoEntry == [version |-> -1, coinbase |-> -1, outs |-> <<>>, height |-> -1]

DecodeError(e, code, n, bitvector, offset) ==
    DecodeResult(e, NoEntry, code, n, bitvector, offset)

\* decode_utxo_end without the assertion.
decode_utxo_end_no_assert(utxo, entry, code, n, bitvector, offset) ==
    DecodeResult("", entry, code, n, bitvector, offset)

\* The end of decode_utxo: "assert len(utxo) == offset", then the return.
decode_utxo_end(utxo, entry, code, n, bitvector, offset) ==
    IF Len(utxo) # offset
    THEN DecodeError("AssertionError", code, n, bitvector, offset)
    ELSE DecodeResult("", entry, code, n, bitvector, offset)

decode_utxo(utxo) ==
    LET v == parse_b128(utxo, 0)
    IN  IF v.err # "" THEN DecodeError(v.err, -1, -1, <<>>, v.offset)
    ELSE
    LET version == b128_decode(v.data)
        c == parse_b128(utxo, v.offset)
    IN  IF version.err # "" THEN DecodeError(version.err, -1, -1, <<>>, v.offset)
        ELSE IF c.err # "" THEN DecodeError(c.err, -1, -1, <<>>, c.offset)
    ELSE
    LET code == b128_decode(c.data)
    IN  IF code.err # "" THEN DecodeError(code.err, -1, -1, <<>>, c.offset)
    ELSE
    LET coinbase == BitAnd(code.val, 1)
        nv == decode_utxo_code(code.val)
        bv == decode_utxo_bitvector(utxo, nv.n, <<>>, c.offset)
        ext == IF nv.n > 0 THEN decode_utxo_extended_vout(bv.bitvector)
               ELSE Return(<<>>)
    IN  IF ext.err # ""
        THEN DecodeError(ext.err, code.val, nv.n, bv.bitvector, bv.offset)
    ELSE
    LET vout == nv.vout \o ext.val
        o == decode_utxo_outs(utxo, vout, 1, bv.offset, <<>>)
    IN  IF o.err # ""
        THEN DecodeError(o.err, code.val, nv.n, bv.bitvector, o.offset)
    ELSE
    LET h == parse_b128(utxo, o.offset)
    IN  IF h.err # ""
        THEN DecodeError(h.err, code.val, nv.n, bv.bitvector, h.offset)
    ELSE
    LET height == b128_decode(h.data)
    IN  IF height.err # ""
        THEN DecodeError(height.err, code.val, nv.n, bv.bitvector, h.offset)
        ELSE decode_utxo_end(utxo,
                             [version |-> version.val, coinbase |-> coinbase,
                              outs |-> o.outs, height |-> height.val],
                             code.val, nv.n, bv.bitvector, h.offset)

-----------------------------------------------------------------------------
(* check_multisig *)

\* script[-2:]: the last two characters (the whole of a shorter str)
LastTwo(s) == SubSeq(s, IF Len(s) > 2 THEN Len(s) - 1 ELSE 1, Len(s))

\* range(81, 83) is 81..82 and range(84, 101) is 84..100; int('', 16) of an
\* empty script raises ValueError.
check_multisig(script, std) ==
    LET r == IF std THEN 81..82 ELSE 84..100
    IN  IF Slice(script, 0, 2) = <<>> THEN Raise("ValueError")
        ELSE Return(/\ Int16(Slice(script, 0, 2)) \in r
                    /\ Slice(script, 2, 4) \in {<<2, 1>>, <<4, 1>>}
                    /\ LastTwo(script) = <<10, 14>>)

-----------------------------------------------------------------------------
(* get_min_input_size *)

\* prev_tx_id + prev_out_index + nSequence
fixed_size == 32 + 4 + 4

\* The two variables each branch sets, or the exception it raises
ScriptSig(scriptSig, scriptSig_len) ==
    [err |-> "", scriptSig |-> scriptSig, scriptSig_len |-> scriptSig_len]

ScriptSigError(e) == [err |-> e, scriptSig |-> 0, scriptSig_len |-> 0]

\* int(ceil(x / float(256))) for x >= 0
CeilDiv256(x) == (x + 255) \div 256

\* The P2PKH branch with "height <= 173480".
min_input_size_p2pkh_off_by_one(height) ==
    IF height <= 173480 THEN ScriptSig(138, 1) ELSE ScriptSig(106, 1)

\* out_type is 0 (P2PKH)
min_input_size_p2pkh(height) ==
    IF height < 173480 THEN ScriptSig(138, 1) ELSE ScriptSig(106, 1)

\* The P2SH branch with a length byte counted for the skipped scripts.
min_input_size_p2sh_len_one(count_p2sh) ==
    IF count_p2sh THEN ScriptSig(1, 1) ELSE ScriptSig(-fixed_size, 1)

\* out_type is 1 (P2SH)
min_input_size_p2sh(count_p2sh) ==
    IF count_p2sh THEN ScriptSig(1, 1) ELSE ScriptSig(-fixed_size, 0)

\* out_type in [2, 3, 4, 5] (P2PK)
min_input_size_p2pk == ScriptSig(72, 1)

\* The multisig pricing with the required signatures counted from OP_0.
min_input_size_multisig_from_op_0(script) ==
    LET req_sigs == Int16(Slice(script, 0, 2)) - 79
        scriptSig == 1 + (req_sigs * 72)
    IN  ScriptSig(scriptSig, CeilDiv256(scriptSig))

\* The branch of a script that check_multisig accepts
min_input_size_multisig(script) ==
    LET req_sigs == Int16(Slice(script, 0, 2)) - 80
        scriptSig == 1 + (req_sigs * 72)
    IN  ScriptSig(scriptSig, CeilDiv256(scriptSig))

\* The non-standard branch with "scriptSig = -fixed_size".
min_input_size_non_standard_as_p2sh == ScriptSig(-fixed_size, 0)

\* The branch of every other script (non-standard outs)
min_input_size_non_standard == ScriptSig(-fixed_size - 1, 0)

\* The else branch (P2MS): check_multisig(script) is called with std = True
min_input_size_p2ms(script) ==
    LET m == check_multisig(script, TRUE)
    IN  IF m.err # "" THEN ScriptSigError(m.err)
        ELSE IF m.val THEN min_input_size_multisig(script)
        ELSE min_input_size_non_standard

\* What get_min_input_size returns or raises; scriptSig and scriptSig_len
\* record its local variables for the properties below.
SizeResult(val, scriptSig, scriptSig_len) ==
    [err |-> "", val |-> val, scriptSig |-> scriptSig, scriptSig_len |-> scriptSig_len]

SizeError(e) == [err |-> e, val |-> 0, scriptSig |-> 0, scriptSig_len |-> 0]

\* "out_type is 0" and "out_type is 1" compare identities; CPython keeps one
\* object for each small integer, so they hold exactly when out_type is 0 or 1.
get_min_input_size(out, height, count_p2sh) ==
    LET out_type == out.out_type
        script == out.data
        s == IF out_type = 0 THEN min_input_size_p2pkh(height)
             ELSE IF out_type = 1 THEN min_input_size_p2sh(count_p2sh)
             ELSE IF out_type \in {2, 3, 4, 5} THEN min_input_size_p2pk
             ELSE min_input_size_p2ms(script)
        var_size == s.scriptSig_len + s.scriptSig
    IN  IF s.err # "" THEN SizeError(s.err)
        ELSE SizeResult(fixed_size + var_size, s.scriptSig, s.scriptSig_len)

-----------------------------------------------------------------------------
(* accumulate_dust_lm *)

\* The fee rates of the package's configuration, satoshi per byte.
MIN_FEE_PER_BYTE == 30

MAX_FEE_PER_BYTE == 350

FEE_STEP == 10

\* range(MIN_FEE_PER_BYTE, MAX_FEE_PER_BYTE, FEE_STEP)
FeeRange ==
    {MIN_FEE_PER_BYTE + k * FEE_STEP :
        k \in 0..((MAX_FEE_PER_BYTE - MIN_FEE_PER_BYTE - 1) \div FEE_STEP)}

\* The least fee rate at which spending an output of this min_size costs its
\* amount or more: the least r with r * min_size >= amount; 0 when there is
\* none to record (min_size negative or zero, or amount zero).
CrossoverRate(min_size, amount) ==
    IF min_size <= 0 \/ amount = 0 THEN 0
    ELSE (amount + min_size - 1) \div min_size

\* A line of the parsed utxo file, as loads gives it: the output's amount and
\* data length with its dust and loss-making rates.
utxo_dump_line(output) ==
    [amount |-> output.amount,
     utxo_data_len |-> output.utxo_data_len,
     dust |-> CrossoverRate(output.min_size, output.amount),
     loss_making |-> output.loss_making]

\* The tables and totals before the loop "for line in fin:".  A table is keyed
\* by str(fee_per_byte), which is one key per fee rate: by the rate here.
accumulate_dust_lm_init ==
    LET dust == [fee_per_byte \in FeeRange |-> 0]
    IN  [dust |-> dust, value_dust |-> dust, data_len_dust |-> dust,
         lm |-> dust, value_lm |-> dust, data_len_lm |-> dust,
         total_utxo |-> 0, total_value |-> 0, total_data_len |-> 0]

\* The test of the dust tables with a strict comparison.
dust_test_strict(fee_per_byte, data) ==
    fee_per_byte > data.dust /\ data.dust # 0

\* fee_per_byte >= data["dust"] != 0
dust_test(fee_per_byte, data) ==
    fee_per_byte >= data.dust /\ data.dust # 0

\* fee_per_byte >= data["loss_making"] != 0
lm_test(fee_per_byte, data) ==
    fee_per_byte >= data.loss_making /\ data.loss_making # 0

\* table[str(fee_per_byte)] += inc for the fee rates that passed the test
AddWhere(table, passed, inc) ==
    [fee_per_byte \in FeeRange |->
        IF fee_per_byte \in passed THEN table[fee_per_byte] + inc
        ELSE table[fee_per_byte]]

\* The three totals without the count of the utxo.
accumulate_totals_no_count(acc, data) ==
    [total_utxo |-> acc.total_utxo,
     total_value |-> acc.total_value + data.amount,
     total_data_len |-> acc.total_data_len + data.utxo_data_len]

\* The three totals after a line
accumulate_totals(acc, data) ==
    [total_utxo |-> acc.total_utxo + 1,
     total_value |-> acc.total_value + data.amount,
     total_data_len |-> acc.total_data_len + data.utxo_data_len]

\* One pass of the loop "for line in fin:" over the line data.
accumulate_dust_lm_line(acc, data) ==
    LET IsDust == {fee_per_byte \in FeeRange : dust_test(fee_per_byte, data)}
        IsLm == {fee_per_byte \in FeeRange : lm_test(fee_per_byte, data)}
        totals == accumulate_totals(acc, data)
    IN  [dust |-> AddWhere(acc.dust, IsDust, 1),
         value_dust |-> AddWhere(acc.value_dust, IsDust, data.amount),
         data_len_dust |-> AddWhere(acc.data_len_dust, IsDust, data.utxo_data_len),
         lm |-> AddWhere(acc.lm, IsLm, 1),
         value_lm |-> AddWhere(acc.value_lm, IsLm, data.amount),
         data_len_lm |-> AddWhere(acc.data_len_lm, IsLm, data.utxo_data_len),
         total_utxo |-> totals.total_utxo,
         total_value |-> totals.total_value,
         total_data_len |-> totals.total_data_len]

\* The dict that is written to fout when fin is exhausted
accumulate_dust_lm_data(acc) ==
    [dust_utxos |-> acc.dust, dust_value |-> acc.value_dust,
     dust_data_len |-> acc.data_len_dust,
     lm_utxos |-> acc.lm, lm_value |-> acc.value_lm,
     lm_data_len |-> acc.data_len_lm,
     total_utxos |-> acc.total_utxo, total_value |-> acc.total_value,
     total_data_len |-> acc.total_data_len]

-----------------------------------------------------------------------------
(* The varint codec as a state machine: a run starts from an integer or    *)
(* from a hex str and applies b128_encode and b128_decode in turn.         *)

ByteStrings(maxlen, bytes) ==
    UNION {[1..k -> bytes] : k \in 0..maxlen}

VarintIntInputs == (0..MaxVarint) \cup VarintBoundary

VarintBytes == VarintPayloads \cup {p + 128 : p \in VarintPayloads}

VarintStrInputs == {HexOfBytes(bs) : bs \in ByteStrings(MaxVarintBytes, VarintBytes)}

\* The components that a specification does not run
IdleVarint ==
    v_pc = "idle" /\ v_first = "idle" /\ v_n0 = -1 /\ v_s0 = <<>> /\ v_num = -1 /\ v_hex = <<>>

IdleDecoder ==
    d_pc = "idle" /\ d_utxo = <<>> /\ d_res = DecodeError("none", -1, -1, <<>>, 0)

IdleClassifier ==
    /\ c_pc = "idle"
    /\ c_out = [index |-> 0, amount |-> 0, out_type |-> 0, data |-> <<>>]
    /\ c_height = 0 /\ c_count_p2sh = FALSE /\ c_std = TRUE
    /\ c_size = SizeError("none") /\ c_multisig = Raise("none")

IdleAccumulator ==
    /\ a_pc = "idle" /\ a_read = <<>>
    /\ a_prev = accumulate_dust_lm_init /\ a_acc = accumulate_dust_lm_init
    /\ a_out = accumulate_dust_lm_data(accumulate_dust_lm_init)

InitVarint ==
    /\ IdleDecoder
    /\ IdleClassifier
    /\ IdleAccumulator
    /\ v_first \in {"int", "str"}
    /\ v_pc = v_first
    /\ IF v_first = "int"
       THEN v_n0 \in VarintIntInputs /\ v_s0 = <<>>
       ELSE v_n0 = -1 /\ v_s0 \in VarintStrInputs
    /\ v_num = v_n0
    /\ v_hex = v_s0

\* A call b128_encode(v_num) of the input integer or of a decoded one.
Encode ==
    /\ \/ v_pc = "int"
       \/ v_pc = "decoded" /\ v_first = "str"
    /\ v_hex' = b128_encode(v_num)
    /\ v_pc' = "encoded"
    /\ UNCHANGED <<v_first, v_n0, v_s0, v_num>>
    /\ UNCHANGED decoderVars
    /\ UNCHANGED classifierVars
    /\ UNCHANGED accumulatorVars

\* A call b128_decode(v_hex) of the input str or of an encoded one.
Decode ==
    /\ \/ v_pc = "str"
       \/ v_pc = "encoded" /\ v_first = "int"
    /\ LET r == b128_decode(v_hex)
       IN  IF r.err = ""
           THEN v_num' = r.val /\ v_pc' = "decoded"
           ELSE v_num' = v_num /\ v_pc' = "error"
    /\ UNCHANGED <<v_first, v_n0, v_s0, v_hex>>
    /\ UNCHANGED decoderVars
    /\ UNCHANGED classifierVars
    /\ UNCHANGED accumulatorVars

NextVarint == Encode \/ Decode

SpecVarint == InitVarint /\ [][NextVarint]_vars

-----------------------------------------------------------------------------
(* The record decoder as a state machine: decode_utxo is called on a       *)
(* serialized utxo; a record that decoded is given one more byte and        *)
(* decoded again.                                                           *)

RECURSIVE WriteVarints(_)
WriteVarints(fields) ==
    IF fields = <<>> THEN <<>>
    ELSE b128_encode(Head(fields)) \o WriteVarints(Tail(fields))

DecoderBodies == UNION {[1..k -> DecoderFields] : k \in 0..MaxBodyFields}

InitDecoder ==
    /\ IdleVarint
    /\ IdleClassifier
    /\ IdleAccumulator
    /\ d_pc = "input"
    /\ \E version \in DecoderVersions, code \in DecoderCodes, body \in DecoderBodies :
           d_utxo = WriteVarints(<<version, code>> \o body)
    /\ d_res = DecodeError("none", -1, -1, <<>>, 0)

\* A call decode_utxo(d_utxo).
DecodeUtxo ==
    /\ d_pc \in {"input", "extended"}
    /\ d_res' = decode_utxo(d_utxo)
    /\ d_pc' = IF d_pc = "input" THEN "decoded" ELSE "redecoded"
    /\ UNCHANGED d_utxo
    /\ UNCHANGED varintVars
    /\ UNCHANGED classifierVars
    /\ UNCHANGED accumulatorVars

\* One more byte is appended to a record that decoded.
AppendByte(b) ==
    /\ d_pc = "decoded"
    /\ d_res.err = ""
    /\ d_utxo' = d_utxo \o Format02x(b)
    /\ d_pc' = "extended"
    /\ UNCHANGED d_res
    /\ UNCHANGED varintVars
    /\ UNCHANGED classifierVars
    /\ UNCHANGED accumulatorVars

NextDecoder ==
    \/ DecodeUtxo
    \/ \E b \in ExtraBytes : AppendByte(b)

SpecDecoder == InitDecoder /\ [][NextDecoder]_vars

-----------------------------------------------------------------------------
(* The record decoder on utxos of one output: version 1, code 2 (output 0  *)
(* unspent, no bitvector), an amount, an out_type, a payload and a height. *)

Payload(base, k) == [i \in 1..k |-> IF i = k THEN base + i ELSE i]

\* The hex str of the bytes of a payload, two digits per byte
PayloadHex(bytes) ==
    [j \in 1..(2 * Len(bytes)) |->
        IF j % 2 = 1 THEN bytes[(j + 1) \div 2] \div 16 ELSE bytes[j \div 2] % 16]

PayloadLens == (0..MaxPayload) \cup LongPayloads

InitPayload ==
    /\ IdleVarint
    /\ IdleClassifier
    /\ IdleAccumulator
    /\ d_pc = "input"
    /\ \E amount \in PayloadAmounts, out_type \in PayloadOutTypes,
          base \in PayloadBases, k \in PayloadLens, height \in PayloadHeights :
           d_utxo = WriteVarints(<<1, 2, amount, out_type>>)
                        \o PayloadHex(Payload(base, k))
                        \o WriteVarints(<<height>>)
    /\ d_res = DecodeError("none", -1, -1, <<>>, 0)

NextPayload == DecodeUtxo

SpecPayload == InitPayload /\ [][NextPayload]_vars

-----------------------------------------------------------------------------
(* The classifier as a state machine: get_min_input_size and               *)
(* check_multisig are called on an out as decode_utxo builds them.          *)

Repeat(b, k) == [i \in 1..k |-> b]

\* A 33-byte compressed public key and a 20-byte hash
Key33 == <<2>> \o Repeat(17, 32)

Hashes20 == {Repeat(0, 20), <<81, 33>> \o Repeat(82, 17) \o <<174>>}

\* 51 21 <key> 21 <key> 52 ae and its like, with and without the last byte
TwoKeyScripts ==
    {<<first, 33>> \o Key33 \o <<33>> \o Key33 \o tail :
        first \in {81, 82}, tail \in {<<82, 174>>, <<82>>}}

ShortScripts == {<<>>, <<81>>, <<174>>, <<81, 33>>, <<81, 174>>}

FilledScripts ==
    {<<first, second>> \o Repeat(82, k) \o <<last>> :
        first \in ScriptFirstBytes, second \in ScriptSecondBytes,
        k \in 0..MaxFill, last \in ScriptLastBytes}

ClassifierScripts == ShortScripts \cup FilledScripts \cup TwoKeyScripts

\* The outs of decode_utxo: 20 bytes of data for the out_types 0 and 1, the
\* type byte and 32 more for 2..5, and a script of out_type - NSPECIALSCRIPTS
\* bytes for the others.
ClassifierOuts ==
    {[index |-> 0, amount |-> 0, out_type |-> t, data |-> HexOfBytes(h)] :
        t \in {0, 1}, h \in Hashes20}
    \cup {[index |-> 0, amount |-> 0, out_type |-> t,
           data |-> HexOfBytes(<<t>> \o Repeat(17, 32))] : t \in {2, 3, 4, 5}}
    \cup {[index |-> 0, amount |-> 0, out_type |-> NSPECIALSCRIPTS + Len(sc),
           data |-> HexOfBytes(sc)] : sc \in ClassifierScripts}

InitClassifier ==
    /\ IdleVarint
    /\ IdleDecoder
    /\ IdleAccumulator
    /\ c_pc = "input"
    /\ c_out \in ClassifierOuts
    /\ c_height \in ClassifierHeights
    /\ c_count_p2sh \in BOOLEAN
    /\ c_std \in BOOLEAN
    /\ c_size = SizeError("none")
    /\ c_multisig = Raise("none")

\* A call get_min_input_size(c_out, c_height, c_count_p2sh).
GetMinInputSize ==
    /\ c_pc = "input"
    /\ c_size' = get_min_input_size(c_out, c_height, c_count_p2sh)
    /\ c_pc' = "sized"
    /\ UNCHANGED <<c_out, c_height, c_count_p2sh, c_std, c_multisig>>
    /\ UNCHANGED <<varintVars, decoderVars, accumulatorVars>>

\* A call check_multisig(c_out["data"], c_std).
CheckMultisig ==
    /\ c_pc = "input"
    /\ c_multisig' = check_multisig(c_out.data, c_std)
    /\ c_pc' = "checked"
    /\ UNCHANGED <<c_out, c_height, c_count_p2sh, c_std, c_size>>
    /\ UNCHANGED <<varintVars, decoderVars, accumulatorVars>>

NextClassifier == GetMinInputSize \/ CheckMultisig

SpecClassifier == InitClassifier /\ [][NextClassifier]_vars

-----------------------------------------------------------------------------
(* The accumulator as a state machine: accumulate_dust_lm reads the lines  *)
(* of the parsed utxo file one by one and writes its dict when the file is *)
(* exhausted.                                                               *)

AccumulatorOutputs ==
    [min_size : AccumulatorMinSizes, amount : AccumulatorAmounts,
     utxo_data_len : AccumulatorDataLens, loss_making : AccumulatorLossMaking]

InitAccumulator ==
    /\ IdleVarint
    /\ IdleDecoder
    /\ IdleClassifier
    /\ a_pc = "reading"
    /\ a_read = <<>>
    /\ a_prev = accumulate_dust_lm_init
    /\ a_acc = accumulate_dust_lm_init
    /\ a_out = accumulate_dust_lm_data(accumulate_dust_lm_init)

\* One pass of "for line in fin:", over the line of one more output.
ReadLine ==
    /\ a_pc = "reading"
    /\ Len(a_read) < MaxLines
    /\ \E output \in AccumulatorOutputs :
           /\ a_read' = Append(a_read, output)
           /\ a_acc' = accumulate_dust_lm_line(a_acc, utxo_dump_line(output))
    /\ a_prev' = a_acc
    /\ UNCHANGED <<a_pc, a_out>>
    /\ UNCHANGED <<varintVars, decoderVars, classifierVars>>

\* fin is exhausted: the dict is built and written to fout.
WriteData ==
    /\ a_pc = "reading"
    /\ a_out' = accumulate_dust_lm_data(a_acc)
    /\ a_pc' = "written"
    /\ UNCHANGED <<a_read, a_prev, a_acc>>
    /\ UNCHANGED <<varintVars, decoderVars, classifierVars>>

NextAccumulator == ReadLine \/ WriteData

SpecAccumulator == InitAccumulator /\ [][NextAccumulator]_vars

-----------------------------------------------------------------------------
(* Properties of the varint codec (SpecVarint) *)

\* The bytes of a hex str of even length
BytesOfHex(s) == [i \in 1..(Len(s) \div 2) |-> 16 * s[2 * i - 1] + s[2 * i]]

\* A well-formed varint: at least one byte, the continuation bit 0x80 set on
\* every byte but the last and clear on the last.
WellFormedVarint(s) ==
    /\ Len(s) % 2 = 0
    /\ Len(s) >= 2
    /\ LET bs == BytesOfHex(s)
       IN  /\ \A i \in 1..(Len(bs) - 1) : bs[i] >= 128
           /\ bs[Len(bs)] < 128

\* C1: decoding the encoding of a non-negative integer returns that integer
\* (and does not raise).
VarintRoundTrip ==
    (v_first = "int" /\ v_pc \in {"decoded", "error"})
        => (v_pc = "decoded" /\ v_num = v_n0)

\* C1 witness: the largest integer checked was encoded and decoded back.
VarintRoundTripWitness ==
    v_first = "int" /\ v_pc = "decoded" /\ v_n0 = 2147483647 /\ Len(v_hex) = 10

\* C2: every encoding has the continuation bit set on all bytes but the last
\* and clear on the last; a well-formed byte string decodes without error
\* and encoding what it decodes to gives the same byte string back, so two
\* distinct well-formed strings never decode to the same integer.
VarintCanonical ==
    /\ v_pc = "encoded" => WellFormedVarint(v_hex)
    /\ (v_first = "str" /\ WellFormedVarint(v_s0)) => v_pc # "error"
    /\ (v_first = "str" /\ WellFormedVarint(v_s0) /\ v_pc = "encoded") => v_hex = v_s0

\* C2 witness: a well-formed three-byte string was decoded and encoded back.
VarintCanonicalWitness ==
    /\ v_first = "str" /\ v_pc = "encoded"
    /\ WellFormedVarint(v_s0) /\ Len(v_s0) = 6
    /\ v_hex = v_s0

-----------------------------------------------------------------------------
(* Properties of the record decoder (SpecDecoder) *)

Decoded == d_pc \in {"decoded", "redecoded"} /\ d_res.err = ""

\* C3: when decode_utxo succeeds the cursor after the height is the length
\* of the record; a record that decoded, with one more byte, does not decode.
DecodeConsumesRecord ==
    /\ Decoded => d_res.offset = Len(d_utxo)
    /\ d_pc = "redecoded" => d_res.err # ""

\* C3 witness: a record with a bitvector decoded, and with one more byte the
\* cursor stopped one byte short of the end and the assertion failed.
DecodeConsumesRecordWitness ==
    /\ d_pc = "redecoded"
    /\ d_res.err = "AssertionError"
    /\ d_res.bitvector # <<>>
    /\ d_res.offset = Len(d_utxo) - 2

\* The claim's reading of code and of the bitvector
BitSet(x, i) == (x \div (2 ^ i)) % 2 = 1

ClaimedN(code) ==
    IF ~BitSet(code, 1) /\ ~BitSet(code, 2) THEN (code \div 8) + 1 ELSE code \div 8

ClaimedIndexes(code, bv) ==
    (IF BitSet(code, 1) THEN {0} ELSE {})
    \cup (IF BitSet(code, 2) THEN {1} ELSE {})
    \cup {8 * (k - 1) + j + 2 : <<k, j>> \in
             {kj \in (1..Len(bv)) \X (0..7) : BitSet(bv[kj[1]], kj[2])}}

OutIndexes(outs) == [i \in 1..Len(outs) |-> outs[i].index]

StrictlyAscending(idx) == \A i \in 1..(Len(idx) - 1) : idx[i] < idx[i + 1]

\* Where the bitvector starts: after the version and the code
BitvectorStart(r) == Len(b128_encode(r.val.version)) + Len(b128_encode(r.code))

\* C4: on a decoded record, n is code >> 3 (plus one when bits 0x02 and 0x04
\* are clear), the bitvector is the bytes after the code up to the n-th
\* non-zero one, and the indexes of the outs are strictly ascending and are
\* 0 if code & 2, 1 if code & 4, and i + 2 for every set bit i of the
\* bitvector read least significant byte first.
UnspentIndexList ==
    Decoded =>
        LET bv == BytesOfHex(d_res.bitvector)
            idx == OutIndexes(d_res.val.outs)
        IN  /\ d_res.n = ClaimedN(d_res.code)
            /\ Cardinality({k \in 1..Len(bv) : bv[k] # 0}) = d_res.n
            /\ Len(bv) > 0 => bv[Len(bv)] # 0
            /\ d_res.bitvector = Slice(d_utxo, BitvectorStart(d_res),
                                       BitvectorStart(d_res) + Len(d_res.bitvector))
            /\ StrictlyAscending(idx)
            /\ {idx[i] : i \in 1..Len(idx)} = ClaimedIndexes(d_res.code, bv)

\* C4 witness: the bitvector 00 40 (bit 14) decoded to the single index 16.
UnspentIndexListWitness ==
    /\ Decoded
    /\ d_res.bitvector = <<0, 0, 4, 0>>
    /\ OutIndexes(d_res.val.outs) = <<16>>

\* A code that has bits 0x02 and 0x04 clear and code >> 3 = 0
BothSpentNoHigher(code) == ~BitSet(code, 1) /\ ~BitSet(code, 2) /\ code \div 8 = 0

\* C5 as stated: a record whose code has bits 0x02 and 0x04 clear and
\* code >> 3 = 0 decodes to an entry with no outs.
BothSpentCodeEmptyOuts ==
    (Decoded /\ BothSpentNoHigher(d_res.code)) => d_res.val.outs = <<>>

\* C5 as amended: for such a code n is 1 (the code stores n - 1), one
\* non-zero bitvector byte is read, and the decoded entry has at least one
\* out, all of index 2 or more.
BothSpentCodeOneBitvectorByte ==
    (Decoded /\ BothSpentNoHigher(d_res.code)) =>
        /\ d_res.n = 1
        /\ Cardinality({k \in 1..(Len(d_res.bitvector) \div 2) :
                           BytesOfHex(d_res.bitvector)[k] # 0}) = 1
        /\ d_res.val.outs # <<>>
        /\ \A i \in 1..Len(d_res.val.outs) : d_res.val.outs[i].index >= 2

\* C5 witness: a record of code 0 decoded to the two outs of bitvector 06.
BothSpentCodeWitness ==
    /\ Decoded
    /\ d_res.code = 0
    /\ OutIndexes(d_res.val.outs) = <<3, 4>>

-----------------------------------------------------------------------------
(* Properties of the classifier (SpecClassifier) *)

Sized == c_pc = "sized"

\* C6: a P2PKH out (out_type 0) is priced with a 138-byte scriptSig, 179 in
\* all, below height 173480 and with a 106-byte scriptSig, 147 in all, from
\* height 173480 on, whatever count_p2sh and the data are.
P2PKHHeightThreshold ==
    (Sized /\ c_out.out_type = 0) =>
        /\ c_size.err = ""
        /\ c_height < 173480 => (c_size.scriptSig = 138 /\ c_size.val = 179)
        /\ c_height >= 173480 => (c_size.scriptSig = 106 /\ c_size.val = 147)

\* C6 witness: a P2PKH out of height 173479 was priced 179 with count_p2sh set.
P2PKHHeightThresholdWitness ==
    /\ Sized /\ c_out.out_type = 0
    /\ c_height = 173479 /\ c_count_p2sh
    /\ c_size.val = 179

\* C7 as stated: a P2SH out (out_type 1) is priced 42 when count_p2sh is set
\* and -40 (minus the fixed size) when it is not.
P2SHSentinelMinusFixed ==
    (Sized /\ c_out.out_type = 1) =>
        (c_size.err = "" /\ c_size.val = IF c_count_p2sh THEN 42 ELSE -40)

\* C7 as amended: a P2SH out is priced 42 when count_p2sh is set; when it is
\* not, scriptSig is -40 with no length byte and the size returned is 0, at
\* every height.
P2SHPricing ==
    (Sized /\ c_out.out_type = 1) =>
        /\ c_size.err = ""
        /\ c_count_p2sh => c_size.val = 42
        /\ ~c_count_p2sh =>
              (c_size.scriptSig = -40 /\ c_size.scriptSig_len = 0 /\ c_size.val = 0)

\* C7 witness: a P2SH out was priced 0 without count_p2sh at height 500000.
P2SHPricingWitness ==
    /\ Sized /\ c_out.out_type = 1
    /\ ~c_count_p2sh /\ c_height = 500000
    /\ c_size.val = 0

\* check_multisig(script) returned False
NotMatched(script) == check_multisig(script, TRUE) = Return(FALSE)

\* What a P2SH out is priced without count_p2sh
P2SHExclusion(height) ==
    get_min_input_size([index |-> 0, amount |-> 0, out_type |-> 1,
                        data |-> Repeat(0, 40)], height, FALSE).val

ClaimedMultisig(bs, std) ==
    /\ Len(bs) >= 2
    /\ bs[1] \in (IF std THEN 81..82 ELSE 84..100)
    /\ bs[2] \in {33, 65}
    /\ bs[Len(bs)] = 174

\* C9: check_multisig(script, std) returns True exactly when the first byte
\* is in 81..82 (std) or 84..100 (not std), the second is 0x21 or 0x41 and
\* the last is 0xae, and returns False in every other case.
MultisigPredicate ==
    c_pc = "checked" =>
        c_multisig = Return(ClaimedMultisig(BytesOfHex(c_out.data), c_std))

\* check_multisig agrees with that reading on every script of one byte or
\* more (on the empty script it raises).
MultisigPredicateNonEmpty ==
    (c_pc = "checked" /\ c_out.data # <<>>) =>
        c_multisig = Return(ClaimedMultisig(BytesOfHex(c_out.data), c_std))

\* A script 51 21 ... 52 ae
TwoKeyForm(bs) ==
    /\ Len(bs) >= 4
    /\ bs[1] = 81 /\ bs[2] = 33
    /\ bs[Len(bs) - 1] = 82 /\ bs[Len(bs)] = 174

\* C10 as stated: a script 51 21 ... 52 ae is priced with two signatures:
\* scriptSig = 1 + 2 * 72 = 145, 186 in all.
TwoKeyScriptTwoSignatures ==
    (Sized /\ c_out.out_type >= 6 /\ TwoKeyForm(BytesOfHex(c_out.data))) =>
        (c_size.scriptSig = 145 /\ c_size.val = 186)

\* C10 as amended: a script 51 21 ... 52 ae is detected as standard multisig
\* and priced with one signature (0x51 is OP_1): scriptSig = 1 + 72 = 73 and
\* 40 + 1 + 73 = 114 in all; the same script without its last byte ae is not
\* detected and is priced as a non-standard script.
TwoKeyScriptOneSignature ==
    LET bs == BytesOfHex(c_out.data)
    IN  /\ (Sized /\ c_out.out_type >= 6 /\ TwoKeyForm(bs)) =>
              /\ c_size.err = ""
              /\ c_size.scriptSig = 1 + 1 * 72
              /\ c_size.val = 114
        /\ (c_pc = "checked" /\ c_std /\ TwoKeyForm(bs)) =>
              c_multisig = Return(TRUE)
        /\ (c_pc = "checked" /\ c_std /\ TwoKeyForm(Append(bs, 174))) =>
              c_multisig = Return(FALSE)
        /\ (Sized /\ c_out.out_type >= 6 /\ TwoKeyForm(Append(bs, 174))) =>
              (c_size.err = "" /\ c_size.val = -1)

\* C10 witness: 51 21 <key> 21 <key> 52 ae was priced 114.
TwoKeyScriptWitness ==
    /\ Sized
    /\ c_out.data = HexOfBytes(<<81, 33>> \o Key33 \o <<33>> \o Key33 \o <<82, 174>>)
    /\ c_size.val = 114

\* C11: get_min_input_size never raises: for every out decode_utxo can
\* produce, every height and both values of count_p2sh, it returns an integer.
ClassifierNeverRaises ==
    Sized => c_size.err = ""

-----------------------------------------------------------------------------
(* Properties of the accumulator (SpecAccumulator) *)

\* The output whose line was read last
LastRead == a_read[Len(a_read)]

\* The claim's reading of "dust at fee rate r"
ClaimedDust(output, r) ==
    output.min_size >= 0 /\ output.amount # 0 /\ r * output.min_size >= output.amount

RECURSIVE SumAmounts(_)
SumAmounts(outputs) ==
    IF outputs = <<>> THEN 0
    ELSE Head(outputs).amount + SumAmounts(Tail(outputs))

\* The sum of their data lengths
RECURSIVE SumDataLens(_)
SumDataLens(outputs) ==
    IF outputs = <<>> THEN 0
    ELSE Head(outputs).utxo_data_len + SumDataLens(Tail(outputs))

\* No fee rate of the table after is below the table before
TableNotDecreased(before, after) ==
    \A r \in FeeRange : after[r] >= before[r]

\* C13: over outputs of non-negative amount and data length, none of the six
\* tables and none of the three totals is lower after a line than before it;
\* after k lines total_utxo is k, total_value the sum of the amounts and
\* total_data_len the sum of the data lengths, and those are the totals of
\* the dict that is written.
AccumulatorMonotone ==
    (a_pc \in {"reading", "written"}
        /\ \A i \in 1..Len(a_read) :
               a_read[i].amount >= 0 /\ a_read[i].utxo_data_len >= 0) =>
        /\ TableNotDecreased(a_prev.dust, a_acc.dust)
        /\ TableNotDecreased(a_prev.value_dust, a_acc.value_dust)
        /\ TableNotDecreased(a_prev.data_len_dust, a_acc.data_len_dust)
        /\ TableNotDecreased(a_prev.lm, a_acc.lm)
        /\ TableNotDecreased(a_prev.value_lm, a_acc.value_lm)
        /\ TableNotDecreased(a_prev.data_len_lm, a_acc.data_len_lm)
        /\ a_acc.total_utxo >= a_prev.total_utxo
        /\ a_acc.total_value >= a_prev.total_value
        /\ a_acc.total_data_len >= a_prev.total_data_len
        /\ a_acc.total_utxo = Len(a_read)
        /\ a_acc.total_value = SumAmounts(a_read)
        /\ a_acc.total_data_len = SumDataLens(a_read)
        /\ a_pc = "written" =>
              /\ a_out.total_utxos = Len(a_read)
              /\ a_out.total_value = SumAmounts(a_read)
              /\ a_out.total_data_len = SumDataLens(a_read)
              /\ a_out.dust_utxos = a_acc.dust /\ a_out.lm_utxos = a_acc.lm

\* C13 witness: the dict of a file of two lines, of amounts 4410 and 60000
\* and data lengths 25 and 0, was written with the totals 2, 64410 and 25;
\* the second output is loss-making from the fee rate 100 on.
AccumulatorMonotoneWitness ==
    /\ a_pc = "written"
    /\ Len(a_read) = 2
    /\ a_read[1].amount = 4410 /\ a_read[1].utxo_data_len = 25
    /\ a_read[2].amount = 60000 /\ a_read[2].utxo_data_len = 0
    /\ a_read[2].loss_making = 95
    /\ a_out.total_utxos = 2 /\ a_out.total_value = 64410
    /\ a_out.total_data_len = 25
    /\ a_prev.value_lm[100] < a_acc.value_lm[100]
    /\ a_out.lm_value[90] = a_prev.value_lm[90]

-----------------------------------------------------------------------------
(* Properties of the payload of an output (SpecPayload) *)

\* In a utxo of version 1 and code 2 the amount of the output starts after
\* two bytes; the type varint starts where the amount ends.
TypeStart(utxo) == parse_b128(utxo, 4).offset

TypeEnd(utxo) == parse_b128(utxo, TypeStart(utxo)).offset

\* The cursor before the height of a decoded record was parsed
HeightStart(r) == r.offset - Len(b128_encode(r.val.height))

\* C14: for an out_type of 2..5 data is the 33 bytes that start with the type
\* byte, so its first byte is the out_type, and the cursor is then 33 bytes
\* after the start of the type byte; for an out_type of 0 or 1 data is the 20
\* bytes after the type byte; for any other out_type it is the
\* out_type - NSPECIALSCRIPTS bytes after the type varint.
PayloadOfOutType ==
    (Decoded /\ Len(d_res.val.outs) = 1) =>
        LET out == d_res.val.outs[1]
            start == TypeStart(d_utxo)
            end == TypeEnd(d_utxo)
        IN  /\ out.out_type \in {2, 3, 4, 5} =>
                  /\ end = start + 2
                  /\ out.data = Slice(d_utxo, start, start + 66)
                  /\ Len(out.data) = 66
                  /\ BytesOfHex(out.data)[1] = out.out_type
                  /\ HeightStart(d_res) = start + 66
            /\ out.out_type \in {0, 1} =>
                  /\ end = start + 2
                  /\ out.data = Slice(d_utxo, end, end + 40)
                  /\ Len(out.data) = 40
                  /\ HeightStart(d_res) = end + 40
            /\ out.out_type \notin {0, 1, 2, 3, 4, 5} =>
                  /\ out.out_type >= NSPECIALSCRIPTS
                  /\ out.data = Slice(d_utxo, end, end + 2 * (out.out_type - NSPECIALSCRIPTS))
                  /\ Len(out.data) = 2 * (out.out_type - NSPECIALSCRIPTS)
                  /\ HeightStart(d_res) = end + Len(out.data)

\* C14 witness: 01 02 8000 03 <01 .. 20> 00 decoded to one output of
\* out_type 3 whose data is 03 01 .. 20.
PayloadOfOutTypeWitness ==
    /\ Decoded
    /\ d_utxo = WriteVarints(<<1, 2, 128, 3>>) \o HexOfBytes(Payload(0, 32))
                    \o WriteVarints(<<0>>)
    /\ Len(d_res.val.outs) = 1
    /\ d_res.val.outs[1].out_type = 3
    /\ d_res.val.outs[1].data = HexOfBytes(<<3>> \o Payload(0, 32))
    /\ d_res.val.height = 0

=============================================================================
